---- MODULE Spec2Model ----
(***************************************************************************)
(* Model of the Homeric formula deviation detection engine                 *)
(* (src/deviation_detection_engine.py): the batch run of __main__ as a     *)
(* state machine, one action per call of the main script, and every        *)
(* function of the engine as an operator computed the way the code         *)
(* computes it.                                                            *)
(*                                                                         *)
(* Strings are sequences of one-character strings, so that str.lower()     *)
(* and the substring test `in` are computed, not assumed.  A float that    *)
(* the code obtains as count / total is the exact fraction, kept in lowest *)
(* terms: for the totals of this model the float comparisons of the code   *)
(* (<, >, ==, against 0, 0.1, 0.3) agree with the rational ones, since     *)
(* division is correctly rounded and 1/10 and 3/10 round to the literals   *)
(* 0.1 and 0.3.  The surprisal -log2(p) is kept as the tagged value        *)
(* [inf, arg]: +infinity, or the finite value -log2(arg).                  *)
(***************************************************************************)
EXTENDS Integers, Sequences, FiniteSets, TLC

\* Longest mention list of the general inputs.
MaxMentions == 2

\* Longest mention list of the single-character inputs (threshold cases).
MaxLong == 11

\* Largest denominator of the probabilities handed to calculate_surprisal.
MaxDenominator == 5

\* Longest analysis list handed to identify_high_surprisal_moments.
MaxRanked == 4

\* high_surprisal[:50]: the report lists the first 50 high-surprisal moments
TopListed == 50

\* [:3]: the report lists a character's 3 most surprising moments
TopPerCharacter == 3

\* the number written for an infinite surprisal
InfinitySentinel == 999

VARIABLES
    db_file,          \* formulae_database.json: [exists, content]
    mentions_file,    \* homer_analysis.json: [exists, content]
    pc,               \* position of __main__
    database,         \* main's local `database`
    mentions,         \* main's local `mentions`
    formula_patterns, \* main's local `formula_patterns`
    expectations,     \* main's local `expectations`
    analyses,         \* main's local `analyses`
    high_surprisal,   \* main's local `high_surprisal`
    report_file,      \* deviation_report.txt: [state, ...what the report shows]
    data_file,        \* deviation_analysis.json: [exists, data]
    probe,            \* direct calls of the scanner and the scorer: [called, mention, detected, result]
    call              \* a direct call of a function of the module: [function, ...arguments, result]

vars == <<db_file, mentions_file, pc, database, mentions, formula_patterns,
          expectations, analyses, high_surprisal, report_file, data_file, probe,
          call>>

----------------------------------------------------------------------------
(* Strings *)

\* str.lower() on one character of the model's alphabet
LowerChar(ch) == IF ch = "A" THEN "a" ELSE ch

\* str.lower()
Lower(s) == [i \in 1..Len(s) |-> LowerChar(s[i])]

\* Python's `p in s` for strings: p occurs in s as a contiguous substring
\* (the empty string occurs in every string)
IsSubstring(p, s) ==
    \E i \in 0..(Len(s) - Len(p)) : SubSeq(s, i + 1, i + Len(p)) = p

----------------------------------------------------------------------------
(* Numbers *)

RECURSIVE GCD(_, _)
GCD(a, b) == IF b = 0 THEN a ELSE GCD(b, a % b)

Abs(n) == IF n < 0 THEN -n ELSE n

\* the value n / d (d > 0), in lowest terms
Frac(n, d) ==
    LET g == GCD(Abs(n), d)
    IN  [num |-> n \div g, den |-> d \div g]

\* 0 and 0.0
Zero == Frac(0, 1)

RatLess(p, q) == p.num * q.den < q.num * p.den

\* float('inf')
Infinity == [inf |-> TRUE, arg |-> Zero]

\* -math.log2(p), p > 0
NegLog2(p) == [inf |-> FALSE, arg |-> p]

\* s > t for surprisal values: -log2 is strictly decreasing
SurprisalGreater(s, t) ==
    IF s.inf THEN ~t.inf
    ELSE IF t.inf THEN FALSE
    ELSE RatLess(s.arg, t.arg)

----------------------------------------------------------------------------
(* Inputs: the contents of the two JSON files *)

Characters == {"Zeus", "Hera"}

\* formula entries of the database (pattern, frequency, position,
\* semantic_category), as formula_review_assistant.py writes them; the same
\* phrase can be listed twice for a character (a 'before' and an 'after'
\* pattern, or two case variants)
EntryLower == [pattern |-> <<"a">>, frequency |-> 2, position |-> "before",
               semantic_category |-> "character epithet"]
EntryUpper == [pattern |-> <<"A">>, frequency |-> 1, position |-> "after",
               semantic_category |-> "to be defined"]
EntryPhrase == [pattern |-> <<"b", "A">>, frequency |-> 2, position |-> "after",
                semantic_category |-> "patronymic or genealogical"]

FormulaEntries == {EntryLower, EntryUpper, EntryPhrase}

FormulaLists == {<<>>} \cup {<<e>> : e \in FormulaEntries}

\* formulae_by_type of the main character: an ordered dict type -> list
MajorByType ==
    {<<[type |-> "epithet", formulae |-> f1],
       [type |-> "patronymic", formulae |-> f2]>> : f1, f2 \in FormulaLists}

\* formulae_by_type of the second character
MinorByType ==
    {<<[type |-> "epithet", formulae |-> f]>> : f \in {<<>>, <<EntryPhrase>>}}

\* the database record of a character
DataOf(c) ==
    {[formulae_by_type |-> b] :
        b \in IF c = "Zeus" THEN MajorByType ELSE MinorByType}

\* the databases: a dict character -> data, for any set of characters
Databases ==
    UNION {{db \in [S -> UNION {DataOf(c) : c \in S}] :
                \A c \in S : db[c] \in DataOf(c)} : S \in SUBSET Characters}

\* lines of the text
Lines == {<<"c">>, <<"A">>, <<"b", "A">>, <<"A", "b">>}

\* a mention list of length n: line_num is the position in the corpus
MentionLists(chars, lines, n) ==
    {[i \in 1..n |-> [character |-> f[i][1], line_num |-> i, line |-> f[i][2]]] :
        f \in [1..n -> chars \X lines]}

GeneralInputs ==
    {[db |-> d, ms |-> m] :
        d \in Databases,
        m \in UNION {MentionLists(Characters, Lines, n) : n \in 0..MaxMentions}}

\* one character with one formula and a long run of mentions
LongInputs ==
    {[db |-> d, ms |-> m] :
        d \in {[c \in {"Zeus"} |->
                 [formulae_by_type |->
                    <<[type |-> "epithet", formulae |-> <<EntryLower>>]>>]]},
        m \in UNION {MentionLists({"Zeus"}, {<<"c">>, <<"A">>}, n) :
                        n \in (MaxMentions + 1)..MaxLong}}

\* one character with two formulae under one type and a third under the
\* next, and a short run of mentions
OrderedInputs ==
    {[db |-> d, ms |-> m] :
        d \in {[c \in {"Zeus"} |->
                 [formulae_by_type |->
                    <<[type |-> "epithet", formulae |-> <<EntryPhrase, EntryLower>>],
                      [type |-> "patronymic", formulae |-> <<EntryUpper>>]>>]]},
        m \in UNION {MentionLists({"Zeus"}, Lines, n) : n \in 0..MaxMentions}}

Inputs == GeneralInputs \cup LongInputs \cup OrderedInputs

----------------------------------------------------------------------------
(* The engine's functions *)

\* a record whose pattern keeps the case of the original
PatternRecordVerbatim(formula, formula_type) ==
    [pattern   |-> formula.pattern,
     original  |-> formula.pattern,
     type      |-> formula_type,
     position  |-> formula.position,
     frequency |-> formula.frequency,
     semantic  |-> formula.semantic_category]

\* the record build_formula_patterns appends for one formula of a type
PatternRecord(formula, formula_type) ==
    [pattern   |-> Lower(formula.pattern),
     original  |-> formula.pattern,
     type      |-> formula_type,
     position  |-> formula.position,
     frequency |-> formula.frequency,
     semantic  |-> formula.semantic_category]

\* the records of one type's formula list, in list order
RECURSIVE TypePatterns(_, _)
TypePatterns(formulae, formula_type) ==
    IF formulae = <<>> THEN <<>>
    ELSE <<PatternRecord(Head(formulae), formula_type)>>
            \o TypePatterns(Tail(formulae), formula_type)

\* character_patterns: the records of all types, in formulae_by_type order
RECURSIVE CharacterPatterns(_)
CharacterPatterns(by_type) ==
    IF by_type = <<>> THEN <<>>
    ELSE TypePatterns(Head(by_type).formulae, Head(by_type).type)
            \o CharacterPatterns(Tail(by_type))

build_formula_patterns(db) ==
    [character \in DOMAIN db |-> CharacterPatterns(db[character].formulae_by_type)]

\* the loop of detect_formulae_in_mention over the character's records
RECURSIVE DetectIn(_, _)
DetectIn(records, line_lower) ==
    IF records = <<>> THEN <<>>
    ELSE (IF IsSubstring(Head(records).pattern, line_lower)
            THEN <<Head(records)>> ELSE <<>>)
            \o DetectIn(Tail(records), line_lower)

\* a scanner that searches the line as written, not lowercased
detect_in_raw_line(mention, patterns) ==
    IF mention.character \notin DOMAIN patterns THEN <<>>
    ELSE DetectIn(patterns[mention.character], mention.line)

detect_formulae_in_mention(mention, patterns) ==
    IF mention.character \notin DOMAIN patterns THEN <<>>
    ELSE DetectIn(patterns[mention.character], Lower(mention.line))

\* a tally that adds two per detection
IncrementTwice(counts, key) ==
    IF key \in DOMAIN counts
        THEN [counts EXCEPT ![key] = @ + 2]
        ELSE counts @@ (key :> 2)

\* Counter: counts[key] += 1
Increment(counts, key) ==
    IF key \in DOMAIN counts
        THEN [counts EXCEPT ![key] = @ + 1]
        ELSE counts @@ (key :> 1)

\* for formula in detected: formula_counts[formula['pattern']] += 1
RECURSIVE CountDetected(_, _)
CountDetected(counts, detected) ==
    IF detected = <<>> THEN counts
    ELSE CountDetected(Increment(counts, Head(detected).pattern), Tail(detected))

\* a tally that stops at the first mention holding no formula
RECURSIVE CountUntilBare(_, _, _)
CountUntilBare(counts, char_mentions, patterns) ==
    IF char_mentions = <<>> THEN counts
    ELSE IF detect_formulae_in_mention(Head(char_mentions), patterns) = <<>>
        THEN counts
        ELSE CountUntilBare(
                CountDetected(counts,
                              detect_formulae_in_mention(Head(char_mentions), patterns)),
                Tail(char_mentions), patterns)

\* for mention in char_mentions: detect and count
RECURSIVE CountMentions(_, _, _)
CountMentions(counts, char_mentions, patterns) ==
    IF char_mentions = <<>> THEN counts
    ELSE CountMentions(
            CountDetected(counts,
                          detect_formulae_in_mention(Head(char_mentions), patterns)),
            Tail(char_mentions), patterns)

\* [m for m in mentions if m['character'] == character]
RECURSIVE CharMentions(_, _)
CharMentions(ms, character) ==
    IF ms = <<>> THEN <<>>
    ELSE (IF Head(ms).character = character THEN <<Head(ms)>> ELSE <<>>)
            \o CharMentions(Tail(ms), character)

\* a profile whose tally leaves out the character's first mention
ProfileOfLaterMentions(ms, patterns, character) ==
    LET char_mentions  == CharMentions(ms, character)
        total_mentions == Len(char_mentions)
        formula_counts == IF char_mentions = <<>> THEN <<>>
                          ELSE CountMentions(<<>>, Tail(char_mentions), patterns)
    IN  [total_mentions        |-> total_mentions,
         formula_counts        |-> formula_counts,
         formula_probabilities |->
            [pattern \in DOMAIN formula_counts |->
                IF total_mentions > 0
                    THEN Frac(formula_counts[pattern], total_mentions)
                    ELSE Zero]]

\* the profile of one character
Profile(ms, patterns, character) ==
    LET char_mentions  == CharMentions(ms, character)
        total_mentions == Len(char_mentions)
        formula_counts == CountMentions(<<>>, char_mentions, patterns)
    IN  [total_mentions        |-> total_mentions,
         formula_counts        |-> formula_counts,
         formula_probabilities |->
            [pattern \in DOMAIN formula_counts |->
                IF total_mentions > 0
                    THEN Frac(formula_counts[pattern], total_mentions)
                    ELSE Zero]]

\* profiles for the characters of the index and of the mentions alike
expectations_for_all_mentioned(ms, patterns) ==
    [character \in DOMAIN patterns \cup {ms[i].character : i \in 1..Len(ms)} |->
        Profile(ms, patterns, character)]

calculate_formula_expectations(ms, patterns) ==
    [character \in DOMAIN patterns |-> Profile(ms, patterns, character)]

\* a surprisal without the minus sign: math.log2(p) = -log2(1/p)
calculate_surprisal_unnegated(probability) ==
    IF probability = Zero THEN Infinity
    ELSE NegLog2(Frac(probability.den, probability.num))

calculate_surprisal(probability) ==
    IF probability = Zero THEN Infinity ELSE NegLog2(probability)

\* the number of counted patterns, not the sum of their counts
CountKeys(counts) == Cardinality(DOMAIN counts)

\* sum(counts.values())
RECURSIVE SumValues(_)
SumValues(counts) ==
    IF DOMAIN counts = {} THEN 0
    ELSE LET k == CHOOSE x \in DOMAIN counts : TRUE
         IN  counts[k] + SumValues([x \in DOMAIN counts \ {k} |-> counts[x]])

\* a maximum that keeps the last record of the highest frequency
RECURSIVE MaxByFrequencyLast(_, _)
MaxByFrequencyLast(best, rest) ==
    IF rest = <<>> THEN best
    ELSE MaxByFrequencyLast(
            IF Head(rest).frequency >= best.frequency THEN Head(rest) ELSE best,
            Tail(rest))

\* max(detected, key=frequency): the first record of the highest frequency
RECURSIVE MaxByFrequency(_, _)
MaxByFrequency(best, rest) ==
    IF rest = <<>> THEN best
    ELSE MaxByFrequency(
            IF Head(rest).frequency > best.frequency THEN Head(rest) ELSE best,
            Tail(rest))

\* the probability below which a bare mention is a deviation (0.3)
BareThreshold == Frac(3, 10)

\* the probability below which a formulaic mention is a deviation (0.1)
FormulaThreshold == Frac(1, 10)

\* probability <= threshold
IsBelowOrEqual(probability, threshold) == ~RatLess(threshold, probability)

\* probability < threshold, the test behind is_deviation
IsBelow(probability, threshold) == RatLess(probability, threshold)

\* analyze_mention_surprisal returns None
None == [none |-> TRUE]

\* dict.get(key, 0)
GetOrZero(probs, key) == IF key \in DOMAIN probs THEN probs[key] ELSE Zero

\* a bare analysis labelled with the other branch's type
BareAnalysisMislabelled(mention, profile) ==
    LET total         == profile.total_mentions
        formula_count == SumValues(profile.formula_counts)
        bare_count    == total - formula_count
        bare_prob     == IF total > 0 THEN Frac(bare_count, total) ELSE Zero
    IN  [mention           |-> mention,
         detected_formulae |-> <<>>,
         type              |-> "formulaic",
         probability       |-> bare_prob,
         surprisal         |-> IF RatLess(Zero, bare_prob)
                                  THEN calculate_surprisal(bare_prob)
                                  ELSE Infinity,
         is_deviation      |-> IsBelow(bare_prob, BareThreshold)]

\* a bare analysis that divides by total_mentions without the guard
BareAnalysisUnguarded(mention, profile) ==
    LET total         == profile.total_mentions
        formula_count == SumValues(profile.formula_counts)
        bare_count    == total - formula_count
    IN  IF total = 0 THEN [raised |-> "ZeroDivisionError"]
        ELSE [mention           |-> mention,
              detected_formulae |-> <<>>,
              type              |-> "bare_mention",
              probability       |-> Frac(bare_count, total),
              surprisal         |-> IF RatLess(Zero, Frac(bare_count, total))
                                       THEN calculate_surprisal(Frac(bare_count, total))
                                       ELSE Infinity,
              is_deviation      |-> IsBelow(Frac(bare_count, total), BareThreshold)]

BareAnalysis(mention, profile) ==
    LET total         == profile.total_mentions
        formula_count == SumValues(profile.formula_counts)
        bare_count    == total - formula_count
        bare_prob     == IF total > 0 THEN Frac(bare_count, total) ELSE Zero
    IN  [mention           |-> mention,
         detected_formulae |-> <<>>,
         type              |-> "bare_mention",
         probability       |-> bare_prob,
         surprisal         |-> IF RatLess(Zero, bare_prob)
                                  THEN calculate_surprisal(bare_prob)
                                  ELSE Infinity,
         is_deviation      |-> IsBelow(bare_prob, BareThreshold)]

FormulaicAnalysis(mention, detected, profile) ==
    LET primary_formula == MaxByFrequency(Head(detected), Tail(detected))
        formula_prob    == GetOrZero(profile.formula_probabilities,
                                     primary_formula.pattern)
    IN  [mention           |-> mention,
         detected_formulae |-> detected,
         primary_formula   |-> primary_formula,
         type              |-> "formulaic",
         probability       |-> formula_prob,
         surprisal         |-> IF RatLess(Zero, formula_prob)
                                  THEN calculate_surprisal(formula_prob)
                                  ELSE Infinity,
         is_deviation      |-> IsBelow(formula_prob, FormulaThreshold)]

analyze_mention_surprisal(mention, patterns, expect) ==
    IF mention.character \notin DOMAIN expect THEN None
    ELSE LET detected == detect_formulae_in_mention(mention, patterns)
         IN  IF detected = <<>>
                THEN BareAnalysis(mention, expect[mention.character])
                ELSE FormulaicAnalysis(mention, detected, expect[mention.character])

\* `if analysis:` -- None is false, a (non-empty) dict is true
Truthy(analysis) == "none" \notin DOMAIN analysis

\* a loop that ends at the first mention without a profile
RECURSIVE find_deviations_until_skip(_, _, _)
find_deviations_until_skip(ms, patterns, expect) ==
    IF ms = <<>> THEN <<>>
    ELSE LET analysis == analyze_mention_surprisal(Head(ms), patterns, expect)
         IN  IF Truthy(analysis)
                THEN <<analysis>> \o find_deviations_until_skip(Tail(ms), patterns, expect)
                ELSE <<>>

RECURSIVE find_deviations(_, _, _)
find_deviations(ms, patterns, expect) ==
    IF ms = <<>> THEN <<>>
    ELSE LET analysis == analyze_mention_surprisal(Head(ms), patterns, expect)
         IN  (IF Truthy(analysis) THEN <<analysis>> ELSE <<>>)
                \o find_deviations(Tail(ms), patterns, expect)

\* a threshold of 2.0 bits = -log2(1/4)
TwoBitThreshold == NegLog2(Frac(1, 4))

\* the threshold main passes: 3.0 bits = -log2(1/8)
DefaultThreshold == NegLog2(Frac(1, 8))

\* a filter that also keeps the entries at the threshold
RECURSIVE FilterAtLeast(_, _)
FilterAtLeast(as, threshold) ==
    IF as = <<>> THEN <<>>
    ELSE (IF ~SurprisalGreater(threshold, Head(as).surprisal)
            THEN <<Head(as)>> ELSE <<>>)
            \o FilterAtLeast(Tail(as), threshold)

\* [a for a in analyses if a['surprisal'] > surprisal_threshold]
RECURSIVE FilterAbove(_, _)
FilterAbove(as, threshold) ==
    IF as = <<>> THEN <<>>
    ELSE (IF SurprisalGreater(Head(as).surprisal, threshold)
            THEN <<Head(as)>> ELSE <<>>)
            \o FilterAbove(Tail(as), threshold)

\* a step that puts a before the entries of equal surprisal
RECURSIVE InsertBeforeEqual(_, _)
InsertBeforeEqual(sorted, a) ==
    IF sorted = <<>> THEN <<a>>
    ELSE IF ~SurprisalGreater(Head(sorted).surprisal, a.surprisal)
            THEN <<a>> \o sorted
            ELSE <<Head(sorted)>> \o InsertBeforeEqual(Tail(sorted), a)

\* one step of a stable descending sort: a goes after every entry whose
\* surprisal is not smaller than its own
RECURSIVE InsertDescending(_, _)
InsertDescending(sorted, a) ==
    IF sorted = <<>> THEN <<a>>
    ELSE IF SurprisalGreater(a.surprisal, Head(sorted).surprisal)
            THEN <<a>> \o sorted
            ELSE <<Head(sorted)>> \o InsertDescending(Tail(sorted), a)

\* list.sort(key=surprisal, reverse=True): stable, descending
RECURSIVE SortDescending(_, _)
SortDescending(sorted, rest) ==
    IF rest = <<>> THEN sorted
    ELSE SortDescending(InsertDescending(sorted, Head(rest)), Tail(rest))

identify_high_surprisal_moments(as, surprisal_threshold) ==
    SortDescending(<<>>, FilterAbove(as, surprisal_threshold))

\* xs[:n]
Take(xs, n) == SubSeq(xs, 1, IF Len(xs) < n THEN Len(xs) ELSE n)

\* len([a for a in analyses if a['type'] == type])
RECURSIVE CountType(_, _)
CountType(as, type) ==
    IF as = <<>> THEN 0
    ELSE (IF Head(as).type = type THEN 1 ELSE 0) + CountType(Tail(as), type)

\* [a for a in analyses if a.get('is_deviation', False)]
RECURSIVE Deviations(_)
Deviations(as) ==
    IF as = <<>> THEN <<>>
    ELSE (IF Head(as).is_deviation THEN <<Head(as)>> ELSE <<>>) \o Deviations(Tail(as))

\* [a for a in analyses if a['mention']['character'] == character]
RECURSIVE CharAnalyses(_, _)
CharAnalyses(as, character) ==
    IF as = <<>> THEN <<>>
    ELSE (IF Head(as).mention.character = character THEN <<Head(as)>> ELSE <<>>)
            \o CharAnalyses(Tail(as), character)

\* the section of one character in the breakdown
CharacterSection(as, character) ==
    LET char_analyses   == CharAnalyses(as, character)
        char_deviations == Deviations(char_analyses)
    IN  [total_mentions  |-> Len(char_analyses),
         deviations      |-> Len(char_deviations),
         deviation_ratio |-> Frac(Len(char_deviations), Len(char_analyses)),
         char_high       |-> Take(SortDescending(<<>>, char_analyses), TopPerCharacter)]

\* what generate_deviation_report writes; the percentages of the overall
\* statistics divide by len(analyses), and with no analysis the division
\* raises after the file was opened and its heading written
generate_deviation_report(as, high, db) ==
    LET total_mentions == Len(as)
    IN  IF total_mentions = 0
        THEN [state |-> "partial", total_mentions |-> 0]
        ELSE [state          |-> "complete",
              total_mentions |-> total_mentions,
              formulaic      |-> CountType(as, "formulaic"),
              bare           |-> CountType(as, "bare_mention"),
              deviations     |-> Len(Deviations(as)),
              formulaic_ratio |-> Frac(CountType(as, "formulaic"), total_mentions),
              bare_ratio      |-> Frac(CountType(as, "bare_mention"), total_mentions),
              deviation_ratio |-> Frac(Len(Deviations(as)), total_mentions),
              listed         |-> Take(high, TopListed),
              by_character   |->
                [character \in {c \in DOMAIN db : CharAnalyses(as, c) # <<>>} |->
                    CharacterSection(as, character)]]

\* the surprisal written as it is, +inf included
SerializedUnchanged(surprisal) == [float |-> surprisal]

\* the surprisal as written: the integer 999 for float('inf'), the float
\* itself otherwise
SerializedSurprisal(surprisal) ==
    IF surprisal = Infinity THEN [int |-> InfinitySentinel]
    ELSE [float |-> surprisal]

\* 'high_surprisal_threshold': 3.0
SavedThreshold == NegLog2(Frac(1, 8))

\* [f['original'] for f in detected_formulae]
RECURSIVE Originals(_)
Originals(records) ==
    IF records = <<>> THEN <<>>
    ELSE <<Head(records).original>> \o Originals(Tail(records))

\* the entry of one analysis in all_analyses
SerializedEntry(analysis) ==
    LET entry == [line_num     |-> analysis.mention.line_num,
                  character    |-> analysis.mention.character,
                  line         |-> analysis.mention.line,
                  type         |-> analysis.type,
                  probability  |-> analysis.probability,
                  surprisal    |-> SerializedSurprisal(analysis.surprisal),
                  is_deviation |-> analysis.is_deviation]
    IN  IF analysis.type = "formulaic"
        THEN entry @@ [detected_formulae |-> Originals(analysis.detected_formulae),
                       primary_formula   |-> analysis.primary_formula.original]
        ELSE entry

RECURSIVE SerializedAnalyses(_)
SerializedAnalyses(as) ==
    IF as = <<>> THEN <<>>
    ELSE <<SerializedEntry(Head(as))>> \o SerializedAnalyses(Tail(as))

\* a dump whose analyses are in ranked order
save_ranked_data(as, high) ==
    [all_analyses             |-> SerializedAnalyses(SortDescending(<<>>, as)),
     high_surprisal_count     |-> Len(high),
     high_surprisal_threshold |-> SavedThreshold]

\* the data save_deviation_data dumps
save_deviation_data(as, high) ==
    [all_analyses             |-> SerializedAnalyses(as),
     high_surprisal_count     |-> Len(high),
     high_surprisal_threshold |-> SavedThreshold]

----------------------------------------------------------------------------
(* The run of __main__ *)

NoProbe == [called |-> FALSE]

NoCall == [function |-> "none"]

Init ==
    /\ \E in \in Inputs, db_exists \in BOOLEAN, ms_exists \in BOOLEAN :
        /\ db_file = [exists |-> db_exists, content |-> in.db]
        /\ mentions_file = [exists |-> ms_exists, content |-> in.ms]
    /\ pc = "start"
    /\ database = <<>>
    /\ mentions = <<>>
    /\ formula_patterns = <<>>
    /\ expectations = <<>>
    /\ analyses = <<>>
    /\ high_surprisal = <<>>
    /\ report_file = [state |-> "absent"]
    /\ data_file = [exists |-> FALSE]
    /\ probe = NoProbe
    /\ call = NoCall

\* database = load_formula_database(...): open() raises when the file is missing
LoadDatabase ==
    /\ pc = "start"
    /\ IF db_file.exists
        THEN /\ database' = db_file.content
             /\ pc' = "database_loaded"
        ELSE /\ database' = database
             /\ pc' = "aborted"
    /\ UNCHANGED <<db_file, mentions_file, mentions, formula_patterns,
                   expectations, analyses, high_surprisal,
                   report_file, data_file, probe, call>>

\* a load that goes on with no mentions when the file is missing
LoadMentionsOrNone ==
    /\ pc = "database_loaded"
    /\ mentions' = IF mentions_file.exists THEN mentions_file.content ELSE <<>>
    /\ pc' = "mentions_loaded"
    /\ UNCHANGED <<db_file, mentions_file, database, formula_patterns,
                   expectations, analyses, high_surprisal,
                   report_file, data_file, probe, call>>

\* mentions = load_mentions(...)
LoadMentions ==
    /\ pc = "database_loaded"
    /\ IF mentions_file.exists
        THEN /\ mentions' = mentions_file.content
             /\ pc' = "mentions_loaded"
        ELSE /\ mentions' = mentions
             /\ pc' = "aborted"
    /\ UNCHANGED <<db_file, mentions_file, database, formula_patterns,
                   expectations, analyses, high_surprisal,
                   report_file, data_file, probe, call>>

\* formula_patterns = build_formula_patterns(database)
BuildPatterns ==
    /\ pc = "mentions_loaded"
    /\ formula_patterns' = build_formula_patterns(database)
    /\ pc' = "patterns_built"
    /\ UNCHANGED <<db_file, mentions_file, database, mentions,
                   expectations, analyses, high_surprisal,
                   report_file, data_file, probe, call>>

\* expectations = calculate_formula_expectations(mentions, formula_patterns, database)
CalculateExpectations ==
    /\ pc = "patterns_built"
    /\ expectations' = calculate_formula_expectations(mentions, formula_patterns)
    /\ pc' = "expectations_calculated"
    /\ UNCHANGED <<db_file, mentions_file, database, mentions,
                   formula_patterns, analyses, high_surprisal,
                   report_file, data_file, probe, call>>

\* analyses = find_deviations(mentions, formula_patterns, expectations)
FindDeviations ==
    /\ pc = "expectations_calculated"
    /\ analyses' = find_deviations(mentions, formula_patterns, expectations)
    /\ pc' = "analysed"
    /\ UNCHANGED <<db_file, mentions_file, database, mentions,
                   formula_patterns, expectations, high_surprisal,
                   report_file, data_file, probe, call>>

\* high_surprisal = identify_high_surprisal_moments(analyses, surprisal_threshold=3.0)
IdentifyHighSurprisal ==
    /\ pc = "analysed"
    /\ high_surprisal' = identify_high_surprisal_moments(analyses, DefaultThreshold)
    /\ pc' = "ranked"
    /\ UNCHANGED <<db_file, mentions_file, database, mentions,
                   formula_patterns, expectations, analyses,
                   report_file, data_file, probe, call>>

\* generate_deviation_report(analyses, high_surprisal, database, ...)
GenerateReport ==
    /\ pc = "ranked"
    /\ report_file' = generate_deviation_report(analyses, high_surprisal, database)
    /\ pc' = IF report_file'.state = "complete" THEN "reported" ELSE "crashed"
    /\ UNCHANGED <<db_file, mentions_file, database, mentions, formula_patterns,
                   expectations, analyses, high_surprisal, data_file, probe, call>>

\* save_deviation_data(analyses, high_surprisal, ...)
SaveData ==
    /\ pc = "reported"
    /\ data_file' = [exists |-> TRUE,
                     data   |-> save_deviation_data(analyses, high_surprisal)]
    /\ pc' = "done"
    /\ UNCHANGED <<db_file, mentions_file, database, mentions, formula_patterns,
                   expectations, analyses, high_surprisal, report_file, probe, call>>

\* the mentions a caller may hand to analyze_mention_surprisal
ProbeMentions ==
    {[character |-> c, line_num |-> 0, line |-> l] : c \in Characters, l \in Lines}

\* the calls detect_formulae_in_mention(mention, formula_patterns) and
\* analyze_mention_surprisal(mention, formula_patterns, expectations) on a
\* mention of the caller's choice, against the index and profiles of the run
AnalyzeMention(mention) ==
    /\ pc \in {"done", "crashed"}
    /\ ~probe.called
    /\ probe' = [called   |-> TRUE,
                 mention  |-> mention,
                 detected |-> detect_formulae_in_mention(mention, formula_patterns),
                 result   |-> analyze_mention_surprisal(mention, formula_patterns,
                                                        expectations)]
    /\ UNCHANGED <<db_file, mentions_file, pc, database, mentions,
                   formula_patterns, expectations, analyses, high_surprisal,
                   report_file, data_file, call>>

Next ==
    \/ LoadDatabase
    \/ LoadMentions
    \/ BuildPatterns
    \/ CalculateExpectations
    \/ FindDeviations
    \/ IdentifyHighSurprisal
    \/ GenerateReport
    \/ SaveData
    \/ \E mention \in ProbeMentions : AnalyzeMention(mention)

Spec == Init /\ [][Next]_vars

----------------------------------------------------------------------------
(* Direct calls of the pure functions, on arguments of the caller's choice *)

\* probabilities k/n in [0,1]
Probabilities == UNION {{Frac(k, n) : k \in 0..n} : n \in 1..MaxDenominator}

\* the module is imported and nothing of __main__ runs
InitCalls ==
    /\ db_file = [exists |-> FALSE, content |-> <<>>]
    /\ mentions_file = [exists |-> FALSE, content |-> <<>>]
    /\ pc = "imported"
    /\ database = <<>>
    /\ mentions = <<>>
    /\ formula_patterns = <<>>
    /\ expectations = <<>>
    /\ analyses = <<>>
    /\ high_surprisal = <<>>
    /\ report_file = [state |-> "absent"]
    /\ data_file = [exists |-> FALSE]
    /\ probe = NoProbe
    /\ call = NoCall

\* calculate_surprisal(p) and calculate_surprisal(q)
CallCalculateSurprisal(p, q) ==
    /\ pc = "imported"
    /\ call = NoCall
    /\ call' = [function |-> "calculate_surprisal",
                p |-> p, of_p |-> calculate_surprisal(p),
                q |-> q, of_q |-> calculate_surprisal(q)]
    /\ UNCHANGED <<db_file, mentions_file, pc, database, mentions,
                   formula_patterns, expectations, analyses, high_surprisal,
                   report_file, data_file, probe>>

\* probabilities whose surprisals are +inf, 7, 5, 3 and 1 bits
RankedProbabilities ==
    {Zero, Frac(1, 128), Frac(1, 32), Frac(1, 8), Frac(1, 2)}

\* a bare_mention analysis of probability p, as analyze_mention_surprisal
\* returns it; line_num is its place in the list
RankedAnalysis(i, p) ==
    [mention           |-> [character |-> "Zeus", line_num |-> i, line |-> <<"c">>],
     detected_formulae |-> <<>>,
     type              |-> "bare_mention",
     probability       |-> p,
     surprisal         |-> calculate_surprisal(p),
     is_deviation      |-> IsBelow(p, BareThreshold)]

\* lists of up to MaxRanked analyses
RankedLists ==
    UNION {{[i \in 1..n |-> RankedAnalysis(i, ps[i])] :
                ps \in [1..n -> RankedProbabilities]} : n \in 0..MaxRanked}

\* thresholds of 3.0 and 5.0 bits
Thresholds == {NegLog2(Frac(1, 8)), NegLog2(Frac(1, 32))}

\* identify_high_surprisal_moments(analyses, surprisal_threshold)
CallIdentify(as, t) ==
    /\ pc = "imported"
    /\ call = NoCall
    /\ call' = [function  |-> "identify_high_surprisal_moments",
                analyses  |-> as,
                threshold |-> t,
                result    |-> identify_high_surprisal_moments(as, t)]
    /\ UNCHANGED <<db_file, mentions_file, pc, database, mentions,
                   formula_patterns, expectations, analyses, high_surprisal,
                   report_file, data_file, probe>>

\* high = identify_high_surprisal_moments(analyses, t) and then
\* save_deviation_data(analyses, high), by a caller with a threshold of its own
CallSave(as, t) ==
    /\ pc = "imported"
    /\ call = NoCall
    /\ call' = [function       |-> "save_deviation_data",
                analyses       |-> as,
                threshold      |-> t,
                high_surprisal |-> identify_high_surprisal_moments(as, t),
                data           |-> save_deviation_data(
                                      as, identify_high_surprisal_moments(as, t))]
    /\ UNCHANGED <<db_file, mentions_file, pc, database, mentions,
                   formula_patterns, expectations, analyses, high_surprisal,
                   report_file, data_file, probe>>

\* the caller is done with the result and may call again
Return ==
    /\ pc = "imported"
    /\ call # NoCall
    /\ call' = NoCall
    /\ UNCHANGED <<db_file, mentions_file, pc, database, mentions,
                   formula_patterns, expectations, analyses, high_surprisal,
                   report_file, data_file, probe>>

NextCalls ==
    \/ Return
    \/ \E p, q \in Probabilities : CallCalculateSurprisal(p, q)
    \/ \E as \in RankedLists, t \in Thresholds : CallIdentify(as, t)
    \/ \E as \in RankedLists, t \in Thresholds : CallSave(as, t)

SpecCalls == InitCalls /\ [][NextCalls]_vars

----------------------------------------------------------------------------
(* What the properties speak about *)

\* the profiles exist
Expected ==
    pc \in {"expectations_calculated", "analysed", "ranked", "reported", "done",
            "crashed"}

\* the analyses exist
Analysed == pc \in {"analysed", "ranked", "reported", "done", "crashed"}

\* positions of the mentions of a character in the mention list
MentionsOf(character) ==
    {i \in 1..Len(mentions) : mentions[i].character = character}

\* the lowercased pattern occurs in the lowercased line
OccursIn(pattern, line) == IsSubstring(Lower(pattern), Lower(line))

\* number of the character's mentions whose line holds the pattern
Occurrences(character, pattern) ==
    Cardinality({i \in MentionsOf(character) : OccursIn(pattern, mentions[i].line)})

\* positions of the records of the character's pattern list that occur in a line
Matching(character, line) ==
    IF character \in DOMAIN formula_patterns
        THEN {j \in 1..Len(formula_patterns[character]) :
                OccursIn(formula_patterns[character][j].original, line)}
        ELSE {}

\* sum of the values of a count mapping
Total(counts) ==
    Cardinality({pair \in UNION {{<<k, n>> : n \in 1..counts[k]} : k \in DOMAIN counts} :
                    TRUE})

\* the lowercased pattern is listed once in the character's pattern list
ListedOnce(character, pattern) ==
    Cardinality({j \in 1..Len(formula_patterns[character]) :
                    formula_patterns[character][j].pattern = pattern}) = 1

\* every analysis the run or the direct call produced
AllAnalyses ==
    {analyses[i] : i \in 1..Len(analyses)}
        \cup (IF probe.called /\ "none" \notin DOMAIN probe.result
                THEN {probe.result} ELSE {})

----------------------------------------------------------------------------
(* Properties *)

\* C1: for every character with N > 0 mentions and every pattern of its
\* index that occurs in k of them, formula_probabilities[pattern] = k/N
\* (0 when there is no entry), whatever the pattern index.
C1_ProbabilityIsOccurrenceRatio ==
    Expected =>
        \A c \in DOMAIN formula_patterns :
            \A j \in 1..Len(formula_patterns[c]) :
                LET N     == Cardinality(MentionsOf(c))
                    p     == formula_patterns[c][j].pattern
                    k     == Occurrences(c, p)
                    probs == expectations[c].formula_probabilities
                    value == IF p \in DOMAIN probs THEN probs[p] ELSE [num |-> 0, den |-> 1]
                IN  N > 0 => value.num * N = k * value.den

\* sum of the probabilities of a profile, as the fraction <<numerator, denominator>>
RECURSIVE SumOfProbabilities(_)
SumOfProbabilities(probs) ==
    IF DOMAIN probs = {} THEN <<0, 1>>
    ELSE LET k    == CHOOSE x \in DOMAIN probs : TRUE
             rest == SumOfProbabilities([x \in DOMAIN probs \ {k} |-> probs[x]])
         IN  <<probs[k].num * rest[2] + rest[1] * probs[k].den, probs[k].den * rest[2]>>

\* no lowercased pattern is listed twice for the character
NoPatternListedTwice(character) ==
    \A j \in 1..Len(formula_patterns[character]) :
        ListedOnce(character, formula_patterns[character][j].pattern)

\* C2 as stated: the probabilities of a character's distinct patterns sum to
\* at most 1 (read here on the pattern lists that list every pattern once,
\* where each count is the number of mentions holding the pattern).
C2_SumAtMostOne ==
    Expected =>
        \A c \in DOMAIN expectations :
            LET sum == SumOfProbabilities(expectations[c].formula_probabilities)
            IN  NoPatternListedTwice(c) => sum[1] <= sum[2]

\* C2 as amended: the probabilities of a character's distinct patterns sum to
\* at most the number of records in the character's pattern list, and to at
\* most 1 when no mention of the character holds more than one record.
C2_SumAtMostRecords ==
    Expected =>
        \A c \in DOMAIN expectations :
            LET sum == SumOfProbabilities(expectations[c].formula_probabilities)
            IN  /\ sum[1] <= Len(formula_patterns[c]) * sum[2]
                /\ (\A i \in MentionsOf(c) :
                        Cardinality(Matching(c, mentions[i].line)) <= 1)
                    => sum[1] <= sum[2]

\* C2's case: a mention holds two records and the sum reaches the number of
\* records, above 1.
C2_Witness ==
    /\ Expected
    /\ \E c \in DOMAIN expectations :
        LET sum == SumOfProbabilities(expectations[c].formula_probabilities)
        IN  /\ NoPatternListedTwice(c)
            /\ \E i \in MentionsOf(c) : Cardinality(Matching(c, mentions[i].line)) = 2
            /\ sum[1] > sum[2]
            /\ sum[1] = Len(formula_patterns[c]) * sum[2]

\* C3: every formula_probabilities value lies in [0,1]: no formula count
\* exceeds total_mentions.
C3_ProbabilityInUnitInterval ==
    Expected =>
        \A c \in DOMAIN expectations :
            \A p \in DOMAIN expectations[c].formula_probabilities :
                LET value == expectations[c].formula_probabilities[p]
                IN  /\ 0 <= value.num
                    /\ value.num <= value.den
                    /\ expectations[c].formula_counts[p] <= expectations[c].total_mentions

\* the records of the character's pattern list (none without an index entry)
RecordsOf(character) ==
    IF character \in DOMAIN formula_patterns
        THEN formula_patterns[character] ELSE <<>>

\* detected is the list of the records at the matching positions, each once,
\* in index order
IsDetection(detected, mention) ==
    LET records == RecordsOf(mention.character)
        hits    == Matching(mention.character, mention.line)
    IN  /\ Len(detected) = Cardinality(hits)
        /\ \A j \in hits :
            detected[Cardinality({i \in hits : i <= j})] = records[j]

\* C4: detect_formulae_in_mention returns exactly the records of the
\* mention's character whose lowercased pattern is a substring of the
\* lowercased line, each once and in index order, and the empty list when the
\* character has no index entry.
C4_DetectionIsMatchingRecords ==
    /\ probe.called =>
        /\ IsDetection(probe.detected, probe.mention)
        /\ probe.mention.character \notin DOMAIN formula_patterns
            => probe.detected = <<>>
    /\ Analysed =>
        \A i \in 1..Len(analyses) :
            IsDetection(analyses[i].detected_formulae, analyses[i].mention)

\* C4's case: the scanner kept one record of a character and dropped another.
C4_Witness ==
    /\ probe.called
    /\ Len(probe.detected) = 1
    /\ Len(RecordsOf(probe.mention.character)) = 2
    /\ probe.detected[1] = RecordsOf(probe.mention.character)[2]

\* the formulaic analyses
Formulaic == {a \in AllAnalyses : a.type = "formulaic"}

\* the bare analyses
Bare == {a \in AllAnalyses : a.type = "bare_mention"}

\* C5: primary_formula is the first detected record of the highest
\* frequency, and probability is formula_probabilities[primary pattern], or 0
\* without an entry.
C5_PrimaryIsFirstMostFrequent ==
    \A a \in Formulaic :
        LET d     == a.detected_formulae
            probs == expectations[a.mention.character].formula_probabilities
        IN  /\ \E j \in 1..Len(d) :
                /\ a.primary_formula = d[j]
                /\ \A i \in 1..Len(d) : d[i].frequency <= d[j].frequency
                /\ \A i \in 1..(j - 1) : d[i].frequency < d[j].frequency
            /\ IF a.primary_formula.pattern \in DOMAIN probs
                THEN a.probability = probs[a.primary_formula.pattern]
                ELSE a.probability = [num |-> 0, den |-> 1]

\* C5's case: two detected records tie on frequency and the first is primary.
C5_Witness ==
    \E a \in Formulaic :
        /\ Len(a.detected_formulae) = 2
        /\ a.detected_formulae[1].frequency = a.detected_formulae[2].frequency
        /\ a.detected_formulae[1] # a.detected_formulae[2]
        /\ a.primary_formula = a.detected_formulae[1]

\* C6: a formulaic mention is a deviation exactly when its probability is
\* strictly below 1/10: with the primary pattern counted k times among N
\* mentions, is_deviation holds iff 10 * k < N.
C6_FormulaicDeviationBelowTenth ==
    \A a \in Formulaic :
        LET profile == expectations[a.mention.character]
            p       == a.primary_formula.pattern
            k       == IF p \in DOMAIN profile.formula_counts
                        THEN profile.formula_counts[p] ELSE 0
            N       == profile.total_mentions
        IN  /\ a.is_deviation <=> 10 * a.probability.num < a.probability.den
            /\ N > 0 => (a.is_deviation <=> 10 * k < N)

\* C6's case: a pattern in 1 of 10 mentions, probability exactly 1/10, no
\* deviation.
C6_Witness ==
    \E a \in Formulaic :
        /\ expectations[a.mention.character].total_mentions = 10
        /\ expectations[a.mention.character].formula_counts[a.primary_formula.pattern] = 1
        /\ a.probability = [num |-> 1, den |-> 10]
        /\ ~a.is_deviation

\* C7: the probability of a bare mention is (total_mentions - sum of the
\* formula counts) / total_mentions of the character's profile (0 when
\* total_mentions is 0), and is_deviation holds exactly when it is strictly
\* below 3/10.
C7_BareProbabilityAndDeviation ==
    \A a \in Bare :
        LET profile == expectations[a.mention.character]
            N       == profile.total_mentions
            S       == Total(profile.formula_counts)
        IN  /\ N > 0 => a.probability.num * N = (N - S) * a.probability.den
            /\ N = 0 => a.probability.num = 0
            /\ a.probability.den > 0
            /\ a.is_deviation <=> 10 * a.probability.num < 3 * a.probability.den

\* C7's case: 3 bare mentions of 10, probability exactly 3/10, no deviation.
C7_Witness ==
    \E a \in Bare :
        /\ expectations[a.mention.character].total_mentions = 10
        /\ Total(expectations[a.mention.character].formula_counts) = 7
        /\ a.probability = [num |-> 3, den |-> 10]
        /\ ~a.is_deviation

\* every mention of the character in the mention list holds a record
AllFormulaic(character) ==
    \A i \in MentionsOf(character) : Matching(character, mentions[i].line) # {}

\* C8: against a profile built from N > 0 mentions that are all formulaic, a
\* bare mention gets probability 0, surprisal +infinity and is_deviation,
\* also when some of the N mentions hold more than one pattern (read here on
\* the pattern lists that list every pattern once).
C8_AllFormulaicBareIsZero ==
    (probe.called /\ probe.detected = <<>>
        /\ probe.mention.character \in DOMAIN expectations
        /\ NoPatternListedTwice(probe.mention.character)
        /\ MentionsOf(probe.mention.character) # {}
        /\ AllFormulaic(probe.mention.character))
    => /\ probe.result.type = "bare_mention"
       /\ probe.result.probability = [num |-> 0, den |-> 1]
       /\ probe.result.surprisal.inf
       /\ probe.result.is_deviation

\* C9: every analysis is 'formulaic' (with a primary_formula) iff the
\* scanner detects a record in the mention, and 'bare_mention' (with no
\* detected formulae and no primary_formula) iff it detects none.
C9_ExactlyOneClassification ==
    \A a \in AllAnalyses :
        LET hits == Matching(a.mention.character, a.mention.line)
        IN  /\ a.type \in {"bare_mention", "formulaic"}
            /\ a.type = "formulaic" <=> hits # {}
            /\ a.type = "bare_mention" <=> hits = {}
            /\ a.type = "formulaic" => "primary_formula" \in DOMAIN a
            /\ a.type = "bare_mention" =>
                /\ a.detected_formulae = <<>>
                /\ "primary_formula" \notin DOMAIN a

\* C9's case: one run classified a mention as bare and another as formulaic.
C9_Witness ==
    /\ Analysed
    /\ \E i, j \in 1..Len(analyses) :
        /\ analyses[i].type = "bare_mention"
        /\ analyses[j].type = "formulaic"

\* positions of the mentions whose character has a profile
Profiled == {i \in 1..Len(mentions) : mentions[i].character \in DOMAIN expectations}

RankedStably(r) ==
    \A j, k \in 1..Len(r) : j < k =>
        /\ ~SurprisalGreater(r[k].surprisal, r[j].surprisal)
        /\ ~SurprisalGreater(r[j].surprisal, r[k].surprisal) =>
                r[j].mention.line_num < r[k].mention.line_num

\* C12: identify_high_surprisal_moments(analyses, t) returns exactly the
\* analyses whose surprisal is strictly greater than t (one at t is left
\* out, one at +inf is kept), each once, by non-increasing surprisal, and
\* entries of equal surprisal (several +inf included) in input order.
C12_HighSurprisalFilteredAndRanked ==
    call.function = "identify_high_surprisal_moments" =>
        LET above == {i \in 1..Len(call.analyses) :
                        SurprisalGreater(call.analyses[i].surprisal, call.threshold)}
        IN  /\ Len(call.result) = Cardinality(above)
            /\ {call.result[j].mention.line_num : j \in 1..Len(call.result)} = above
            /\ \A j \in 1..Len(call.result) :
                    call.result[j] = call.analyses[call.result[j].mention.line_num]
            /\ RankedStably(call.result)

C12_Witness ==
    /\ call.function = "identify_high_surprisal_moments"
    /\ call.threshold = NegLog2(Frac(1, 8))
    /\ Len(call.analyses) = 4
    /\ call.analyses[1].surprisal = Infinity
    /\ call.analyses[2].surprisal = NegLog2(Frac(1, 8))
    /\ call.analyses[3].surprisal = NegLog2(Frac(1, 128))
    /\ call.analyses[4].surprisal = Infinity
    /\ call.result = <<call.analyses[1], call.analyses[4], call.analyses[3]>>

\* the analysis is an entry of the high-surprisal list
Listed(a) == \E j \in 1..Len(high_surprisal) : high_surprisal[j] = a

\* C13: with the threshold of 3.0 bits an analysis is in the high-surprisal
\* list exactly when its probability is strictly below 1/8; so every
\* formulaic analysis flagged is_deviation (probability < 0.10) is listed,
\* while a bare one flagged is_deviation (probability < 0.30) may not be.
C13_ListedIffBelowEighth ==
    pc = "ranked" =>
        \A i \in 1..Len(analyses) :
            /\ Listed(analyses[i]) <=> 8 * analyses[i].probability.num < analyses[i].probability.den
            /\ (analyses[i].type = "formulaic" /\ analyses[i].is_deviation) => Listed(analyses[i])

\* a bare mention at probability 1/8 (3.0 bits exactly) is flagged a
\* deviation and is not listed
C13_Witness ==
    /\ pc = "ranked"
    /\ \E i \in 1..Len(analyses) :
            /\ analyses[i].type = "bare_mention"
            /\ analyses[i].probability = [num |-> 1, den |-> 8]
            /\ analyses[i].is_deviation
            /\ ~Listed(analyses[i])

\* the list with the entries at i and j exchanged
Exchanged(xs, i, j) ==
    [k \in 1..Len(xs) |-> IF k = i THEN xs[j] ELSE IF k = j THEN xs[i] ELSE xs[k]]

\* the list back to front
Reversed(xs) == [k \in 1..Len(xs) |-> xs[Len(xs) + 1 - k]]

\* C14: calculate_formula_expectations on the same mentions and pattern
\* index gives the same profiles whatever the order of the mentions: with
\* two neighbouring mentions exchanged (the steps every reordering is made
\* of), the first and the last exchanged, or the whole list reversed, every
\* character gets the total_mentions, formula_counts and
\* formula_probabilities the run computed.
C14_ProfilesIndependentOfOrder ==
    pc = "expectations_calculated" =>
        /\ \A i \in 1..(Len(mentions) - 1) :
                calculate_formula_expectations(Exchanged(mentions, i, i + 1),
                                               formula_patterns) = expectations
        /\ Len(mentions) > 1 =>
                calculate_formula_expectations(Exchanged(mentions, 1, Len(mentions)),
                                               formula_patterns) = expectations
        /\ calculate_formula_expectations(Reversed(mentions), formula_patterns)
                = expectations

\* a formulaic mention listed before a bare one of the same character
C14_Witness ==
    /\ pc = "expectations_calculated"
    /\ \E i, j \in 1..Len(mentions) :
            /\ i < j
            /\ mentions[i].character = mentions[j].character
            /\ detect_formulae_in_mention(mentions[i], formula_patterns) # <<>>
            /\ detect_formulae_in_mention(mentions[j], formula_patterns) = <<>>
            /\ mentions[i].character \in DOMAIN expectations
            /\ expectations[mentions[i].character].total_mentions >= 2

\* the characters of the pattern index that no mention names
Unmentioned == {c \in DOMAIN formula_patterns : MentionsOf(c) = {}}

\* C15: a character of the pattern index without any mention gets a profile
\* with total_mentions = 0 and no count or probability entry, so that every
\* pattern reads as probability 0; and a bare mention analysed against a
\* profile with total_mentions = 0 gets an analysis (no exception) whose
\* probability is 0.
C15_NoMentionsNoDivision ==
    Expected =>
        /\ \A c \in Unmentioned :
                /\ c \in DOMAIN expectations
                /\ expectations[c].total_mentions = 0
                /\ DOMAIN expectations[c].formula_counts = {}
                /\ DOMAIN expectations[c].formula_probabilities = {}
                /\ \A k \in 1..Len(formula_patterns[c]) :
                        GetOrZero(expectations[c].formula_probabilities,
                                  formula_patterns[c][k].pattern) = [num |-> 0, den |-> 1]
        /\ (/\ probe.called
            /\ probe.mention.character \in DOMAIN expectations
            /\ expectations[probe.mention.character].total_mentions = 0
            /\ probe.detected = <<>>) =>
                /\ "probability" \in DOMAIN probe.result
                /\ probe.result.type = "bare_mention"
                /\ probe.result.probability = [num |-> 0, den |-> 1]

\* a bare mention of a character with patterns and no mention in the corpus
C15_Witness ==
    /\ probe.called
    /\ probe.mention.character \in Unmentioned
    /\ formula_patterns[probe.mention.character] # <<>>
    /\ mentions # <<>>
    /\ probe.detected = <<>>
    /\ probe.result.probability = [num |-> 0, den |-> 1]

\* k if d = 2^k, and -1 if d is no power of two
RECURSIVE Log2Exact(_)
Log2Exact(d) ==
    IF d = 1 THEN 0
    ELSE IF d % 2 # 0 THEN -1
    ELSE LET k == Log2Exact(d \div 2) IN IF k < 0 THEN -1 ELSE k + 1

\* the written value is the number 999: the integer itself, or a float
\* -log2(p) with p = 1/2^999
Reads999(written) ==
    IF "int" \in DOMAIN written THEN written.int = 999
    ELSE /\ ~written.float.inf
         /\ written.float.arg.num = 1
         /\ Log2Exact(written.float.arg.den) = 999

\* C16: save_deviation_data writes the surprisal 999 for an analysis whose
\* surprisal is +inf and the finite value itself otherwise, and no finite
\* surprisal of an analysis is 999: a written 999 stands for +inf only.
C16_SentinelOnlyForInfinity ==
    pc = "done" =>
        /\ Len(data_file.data.all_analyses) = Len(analyses)
        /\ \A i \in 1..Len(analyses) :
            LET written == data_file.data.all_analyses[i].surprisal
            IN  /\ analyses[i].surprisal.inf => written = [int |-> 999]
                /\ ~analyses[i].surprisal.inf =>
                        written = [float |-> analyses[i].surprisal]
                /\ Reads999(written) <=> analyses[i].surprisal.inf

\* one file holding the sentinel and a finite surprisal
C16_Witness ==
    /\ pc = "done"
    /\ \E i, j \in 1..Len(analyses) :
            /\ analyses[i].surprisal.inf
            /\ data_file.data.all_analyses[i].surprisal = [int |-> 999]
            /\ ~analyses[j].surprisal.inf
            /\ data_file.data.all_analyses[j].surprisal = [float |-> analyses[j].surprisal]

\* the number of formulae listed under the first t types
RECURSIVE FormulaeUpTo(_, _)
FormulaeUpTo(by_type, t) ==
    IF t = 0 THEN 0
    ELSE FormulaeUpTo(by_type, t - 1) + Len(by_type[t].formulae)

\* the lowercase letter of a letter
LowerCaseOf(ch) ==
    CASE ch = "A" -> "a"
      [] ch = "a" -> "a"
      [] ch = "b" -> "b"
      [] ch = "c" -> "c"

\* C17: build_formula_patterns gives every character of the database, and
\* no other, one flat list holding one record per formula of the character:
\* the formulae of the first type in list order, then those of the next
\* type; a record's pattern is its original in lowercase, and original,
\* type, position and frequency are those of the database, which is left
\* as it was loaded.
C17_OneRecordPerFormulaInOrder ==
    pc \in {"patterns_built", "expectations_calculated"} =>
        /\ DOMAIN formula_patterns = DOMAIN database
        /\ database = db_file.content
        /\ \A c \in DOMAIN database :
            LET by_type == database[c].formulae_by_type
            IN  /\ Len(formula_patterns[c]) = FormulaeUpTo(by_type, Len(by_type))
                /\ \A t \in 1..Len(by_type) : \A k \in 1..Len(by_type[t].formulae) :
                    LET formula == by_type[t].formulae[k]
                        record  == formula_patterns[c][FormulaeUpTo(by_type, t - 1) + k]
                    IN  /\ record.original = formula.pattern
                        /\ Len(record.pattern) = Len(formula.pattern)
                        /\ \A i \in 1..Len(formula.pattern) :
                                record.pattern[i] = LowerCaseOf(formula.pattern[i])
                        /\ record.type = by_type[t].type
                        /\ record.position = formula.position
                        /\ record.frequency = formula.frequency

\* a character with two formulae under the first type and one, in
\* capitals, under the second
C17_Witness ==
    /\ pc = "patterns_built"
    /\ "Zeus" \in DOMAIN formula_patterns
    /\ Len(formula_patterns["Zeus"]) = 3
    /\ formula_patterns["Zeus"][1].type = "epithet"
    /\ formula_patterns["Zeus"][1].original = <<"b", "A">>
    /\ formula_patterns["Zeus"][1].pattern = <<"b", "a">>
    /\ formula_patterns["Zeus"][2].type = "epithet"
    /\ formula_patterns["Zeus"][2].original = <<"a">>
    /\ formula_patterns["Zeus"][3].type = "patronymic"
    /\ formula_patterns["Zeus"][3].original = <<"A">>
    /\ formula_patterns["Zeus"][3].pattern = <<"a">>

\* the places in analyses of the analyses of a character
AnalysesOf(c) == {i \in 1..Len(analyses) : analyses[i].mention.character = c}

\* the place of an analysis in analyses
PositionOf(a) == CHOOSE i \in 1..Len(analyses) : analyses[i] = a

\* C18: in the per-character breakdown of the report, a character of the
\* database with n >= 1 analyses has min(3, n) "most surprising moments";
\* they are analyses of that character, each listed once, in non-increasing
\* surprisal order; no analysis of the character left out has a strictly
\* higher surprisal than a listed one; and among equal surprisals the
\* earlier analysis is listed first and is the one kept.
C18_TopThreePerCharacter ==
    (pc = "reported" /\ report_file.state = "complete") =>
        \A c \in DOMAIN database : AnalysesOf(c) # {} =>
            /\ c \in DOMAIN report_file.by_character
            /\ LET char_high == report_file.by_character[c].char_high
                    listed    == {PositionOf(char_high[j]) : j \in 1..Len(char_high)}
                IN  /\ Len(char_high) = IF Cardinality(AnalysesOf(c)) < 3
                                            THEN Cardinality(AnalysesOf(c)) ELSE 3
                    /\ \A j \in 1..Len(char_high) :
                            \E i \in AnalysesOf(c) : analyses[i] = char_high[j]
                    /\ Cardinality(listed) = Len(char_high)
                    /\ \A j, k \in 1..Len(char_high) : j < k =>
                        /\ ~SurprisalGreater(char_high[k].surprisal, char_high[j].surprisal)
                        /\ char_high[k].surprisal = char_high[j].surprisal =>
                                PositionOf(char_high[j]) < PositionOf(char_high[k])
                    /\ \A u \in AnalysesOf(c) \ listed : \A l \in listed :
                        /\ ~SurprisalGreater(analyses[u].surprisal, analyses[l].surprisal)
                        /\ analyses[u].surprisal = analyses[l].surprisal => l < u

\* more than three analyses of a character, the most surprising one not
\* first in the corpus, and an analysis left out that ties with a listed one
C18_Witness ==
    /\ pc = "reported"
    /\ report_file.state = "complete"
    /\ Cardinality(AnalysesOf("Zeus")) > 3
    /\ LET char_high == report_file.by_character["Zeus"].char_high
       IN  /\ Len(char_high) = 3
           /\ PositionOf(char_high[1]) > 1
           /\ SurprisalGreater(char_high[1].surprisal, char_high[3].surprisal)
           /\ \E u \in AnalysesOf("Zeus") :
                /\ analyses[u].surprisal = char_high[3].surprisal
                /\ u > PositionOf(char_high[3])

\* C19: identify_high_surprisal_moments, generate_deviation_report and
\* save_deviation_data leave the analyses list as it was (the ranking sorts
\* a new list): the steps from ranking to saving do not change analyses,
\* and the saved entries are, one for one and in the same order, the
\* analyses find_deviations produced.
C19_AnalysesLeftUnchanged ==
    /\ [][(pc \in {"analysed", "ranked", "reported"}) => (analyses' = analyses)]_vars
    /\ [](pc = "done" =>
            /\ analyses = find_deviations(mentions, formula_patterns, expectations)
            /\ Len(data_file.data.all_analyses) = Len(analyses)
            /\ \A i \in 1..Len(analyses) :
                /\ data_file.data.all_analyses[i].line_num = analyses[i].mention.line_num
                /\ data_file.data.all_analyses[i].character = analyses[i].mention.character
                /\ data_file.data.all_analyses[i].line = analyses[i].mention.line
                /\ data_file.data.all_analyses[i].type = analyses[i].type
                /\ data_file.data.all_analyses[i].probability = analyses[i].probability)

\* a saved run whose ranking starts with a later analysis than the first:
\* ranked order and saved order differ
C19_Witness ==
    /\ pc = "done"
    /\ data_file.exists
    /\ Len(analyses) > 3
    /\ high_surprisal # <<>>
    /\ PositionOf(high_surprisal[1]) > 1
    /\ data_file.data.all_analyses[1].line_num = analyses[1].mention.line_num
    /\ data_file.data.all_analyses[1].line_num # high_surprisal[1].mention.line_num

\* C20: when the formula database or the mentions file cannot be loaded,
\* the run stops at the load: no pattern index, expectation profile,
\* analysis or ranking is ever computed, and neither deviation_report.txt
\* nor deviation_analysis.json is written, not even in part.
C20_NoOutputWithoutInputs ==
    (~db_file.exists \/ ~mentions_file.exists) =>
        /\ pc \in {"start", "database_loaded", "aborted"}
        /\ (pc = "database_loaded" => db_file.exists)
        /\ DOMAIN formula_patterns = {}
        /\ DOMAIN expectations = {}
        /\ Len(analyses) = 0
        /\ Len(high_surprisal) = 0
        /\ report_file.state = "absent"
        /\ ~data_file.exists

\* the database was loaded, the mentions file is missing, the run stopped
C20_Witness ==
    /\ pc = "aborted"
    /\ db_file.exists
    /\ ~mentions_file.exists
    /\ database = db_file.content
    /\ DOMAIN database # {}
    /\ report_file.state = "absent"
    /\ ~data_file.exists

\* C21: when the database and the mentions were loaded, the run gets
\* through generate_deviation_report without a division by zero, also when
\* no mention gave an analysis and when a character of the database has no
\* analyses: once the report step was taken the report is complete.
C21_ReportCompletes ==
    (db_file.exists /\ mentions_file.exists
        /\ pc \in {"reported", "done", "crashed"}) =>
            /\ pc # "crashed"
            /\ report_file.state = "complete"

\* C22: in a run the characters with a profile are the characters of the
\* pattern index, those with an empty pattern list included; a mention of a
\* character outside the index is skipped (None) and never becomes a
\* bare_mention analysis, in the run's analyses and in a direct call alike.
C22_OutsideIndexIsSkipped ==
    /\ Expected => DOMAIN expectations = DOMAIN formula_patterns
    /\ Analysed =>
            \A i \in 1..Len(analyses) :
                analyses[i].mention.character \in DOMAIN formula_patterns
    /\ (probe.called /\ probe.mention.character \notin DOMAIN formula_patterns) =>
            /\ "none" \in DOMAIN probe.result
            /\ "type" \notin DOMAIN probe.result

\* the corpus names a character outside the index, which is skipped, next
\* to a character whose pattern list is empty and who has a profile and an
\* analysis
C22_Witness ==
    /\ probe.called
    /\ probe.mention.character \notin DOMAIN formula_patterns
    /\ probe.result = [none |-> TRUE]
    /\ \E i \in 1..Len(mentions) :
            mentions[i].character \notin DOMAIN formula_patterns
    /\ \E c \in DOMAIN formula_patterns :
            /\ formula_patterns[c] = <<>>
            /\ c \in DOMAIN expectations
            /\ \E i \in 1..Len(analyses) : analyses[i].mention.character = c
    /\ Len(analyses) < Len(mentions)

\* the character's mentions in which the scanner detects no formula
BareMentionsOf(character) ==
    {i \in MentionsOf(character) : Matching(character, mentions[i].line) = {}}

\* C23: the probability of every bare_mention analysis lies in [0,1] and is
\* the fraction of the character's mentions that hold no formula, also when
\* some mention holds two or more patterns (read here on the pattern lists
\* that list every pattern once).
C23_BareProbabilityIsBareFraction ==
    \A a \in Bare :
        LET c == a.mention.character
            N == Cardinality(MentionsOf(c))
        IN  (N > 0 /\ NoPatternListedTwice(c)) =>
                /\ 0 <= a.probability.num
                /\ a.probability.num <= a.probability.den
                /\ a.probability.num * N
                        = Cardinality(BareMentionsOf(c)) * a.probability.den

\* C24: in a full run, where the profiles come from the mentions that are
\* then analysed, every formulaic analysis has a probability above 0 and a
\* finite surprisal (its own mention was counted for its primary formula);
\* so +inf, written as 999, occurs on bare_mention analyses only.
C24_FormulaicSurprisalFinite ==
    /\ Analysed =>
            \A i \in 1..Len(analyses) :
                /\ analyses[i].type = "formulaic" =>
                        /\ analyses[i].probability.num > 0
                        /\ ~analyses[i].surprisal.inf
                        /\ expectations[analyses[i].mention.character]
                                .formula_counts[analyses[i].primary_formula.pattern] >= 1
                /\ analyses[i].surprisal.inf => analyses[i].type = "bare_mention"
    /\ pc = "done" =>
            \A i \in 1..Len(data_file.data.all_analyses) :
                data_file.data.all_analyses[i].surprisal = [int |-> 999] =>
                    data_file.data.all_analyses[i].type = "bare_mention"

\* a saved run with a formulaic entry of finite surprisal and a bare entry
\* written as 999
C24_Witness ==
    /\ pc = "done"
    /\ \E i, j \in 1..Len(analyses) :
            /\ analyses[i].type = "formulaic"
            /\ analyses[i].probability.num > 0
            /\ data_file.data.all_analyses[i].surprisal = [float |-> analyses[i].surprisal]
            /\ analyses[j].type = "bare_mention"
            /\ analyses[j].mention.character = analyses[i].mention.character
            /\ data_file.data.all_analyses[j].surprisal = [int |-> 999]

\* C25: the high_surprisal_threshold that save_deviation_data writes is the
\* threshold the high-surprisal list was built with, whatever threshold the
\* caller chose: high_surprisal_count counts exactly the analyses whose
\* surprisal is above the written threshold.
C25_WrittenThresholdIsUsedThreshold ==
    call.function = "save_deviation_data" =>
        /\ call.data.high_surprisal_threshold = call.threshold
        /\ call.data.high_surprisal_count =
                Cardinality({i \in 1..Len(call.analyses) :
                    SurprisalGreater(call.analyses[i].surprisal,
                                     call.data.high_surprisal_threshold)})

====
